---- MODULE Spec2Model ----
(***************************************************************************)
(* AgentVision: the browser primitives (tools), the per-step screenshot    *)
(* callback and the step loop of the two agents, src/agent.py (shopping    *)
(* flow) and src/zepto.py (scraping flow).                                 *)
(*                                                                         *)
(* Text is a sequence of tokens (each token a literal piece of a Python    *)
(* string); concatenation is \o.  An optional value (None or a value) is a *)
(* sequence of length 0 or 1.  The page and the browser are the            *)
(* environment: what a primitive finds on the page is a response record    *)
(* drawn from a bounded set.                                               *)
(***************************************************************************)
EXTENDS Integers, Sequences, FiniteSets, TLC

VARIABLES flow, page, session, pc, steps, step_number, cur, code, final,
          decisions, captures, fatal, last

vars == <<flow, page, session, pc, steps, step_number, cur, code, final,
          decisions, captures, fatal, last>>

(***************************************************************************)
(* Bounds of the model.                                                    *)
(***************************************************************************)
\* elements one overlay selector / the category grid can match
MaxElems == 1
\* tool calls in the code the planner generates for one step
MaxCalls == 2
\* leading steps in which the planner's code and the page are unconstrained
MaxFree == 1
\* tokens of textual observation a step log may hold before the callback
MaxText == 2

(***************************************************************************)
(* Outcomes of a Python call: it returns a value or raises.                *)
(***************************************************************************)
Return(m, a) == [kind |-> "return", msg |-> m, exc |-> "none", acts |-> a]

Raise(e, a) == [kind |-> "raise", msg |-> <<>>, exc |-> e, acts |-> a]

\* the exception classes the model raises; all derive from Exception
Exception ==
  {"TimeoutException", "LookupError", "WebDriverException", "RuntimeError",
   "AttributeError"}

\* str(e): helium raises a bare LookupError(), whose text is empty
StrOf(e) ==
  CASE e = "LookupError" -> <<>>
    [] e = "TimeoutException" -> <<"Message: ">>
    [] e = "WebDriverException" -> <<"Message: session not reachable">>
    [] e = "RuntimeError" -> <<"no driver: call start_chrome first">>
    [] OTHER -> <<"'NoneType' object has no attribute 'current_url'">>

Catch_not_driver(res, prefix) ==
  IF res.kind = "raise" /\ res.exc \in Exception \ {"WebDriverException"}
  THEN Return(prefix \o StrOf(res.exc), res.acts)
  ELSE res

\* try: <body>  except Exception as e: return f"<prefix>{str(e)}"
Catch(res, prefix) ==
  IF res.kind = "raise" /\ res.exc \in Exception
  THEN Return(prefix \o StrOf(res.exc), res.acts)
  ELSE res

\* what a helium call raises when the session is not live
HeliumDown(sess) ==
  IF sess = "none" THEN "RuntimeError" ELSE "WebDriverException"

(***************************************************************************)
(* The page's response to one primitive invocation.                        *)
(***************************************************************************)
Bools(n) == UNION {[1..k -> BOOLEAN] : k \in 0..n}

Products == {"milk", "bread"}

AltTexts == {"", "Fruits"}

NoResponse ==
  [landmark |-> FALSE, entry |-> FALSE, detect |-> FALSE, allow |-> FALSE,
   pin |-> FALSE, confirm |-> FALSE, click_ok |-> FALSE,
   matches |-> <<<<>>, <<>>, <<>>, <<>>>>, alts |-> <<>>, term |-> "bread"]

(***************************************************************************)
(* The tools.  Each takes the session state and the page's response and    *)
(* yields its outcome: the string it returns, and the DOM actions it       *)
(* dispatched (acts), each <<operation, target, index>>.                   *)
(***************************************************************************)
navigate_no_wait(sess, r) ==
  Catch(IF sess # "live"
        THEN Raise(HeliumDown(sess), <<>>)
        ELSE Return(<<"Successfully navigated to Zepto.">>,
                    <<<<"go_to", "https://www.zeptonow.com/", 0>>>>),
        <<"Error navigating to Zepto: ">>)

navigate_to_zepto(sess, r) ==
  Catch(IF sess # "live"
        THEN Raise(HeliumDown(sess), <<>>)
        ELSE IF ~r.landmark
        THEN Raise("TimeoutException",
                   <<<<"go_to", "https://www.zeptonow.com/", 0>>>>)
        ELSE Return(<<"Successfully navigated to Zepto.">>,
                    <<<<"go_to", "https://www.zeptonow.com/", 0>>>>),
        <<"Error navigating to Zepto: ">>)

\* helium.click(x): the click is dispatched; it raises when the element
\* cannot be clicked
Click(r, target, ok_msg, before) ==
  IF r.click_ok
  THEN Return(ok_msg, Append(before, <<"click", target, 0>>))
  ELSE Raise("WebDriverException", Append(before, <<"click", target, 0>>))

\* the PIN branch: helium.write("400001"), helium.click("Confirm")
EnterPin(r) ==
  IF ~r.confirm
  THEN Raise("LookupError", <<<<"write", "400001", 0>>>>)
  ELSE Click(r, "Confirm", <<"Entered PIN and confirmed location.">>,
             <<<<"write", "400001", 0>>>>)

handle_location_popup_allow_first(sess, r) ==
  Catch(IF sess # "live"
        THEN Raise(HeliumDown(sess), <<>>)
        ELSE IF r.allow
        THEN Click(r, "Allow", <<"Clicked 'Allow' on location popup.">>, <<>>)
        ELSE IF r.detect
        THEN Click(r, "Detect my location",
                   <<"Clicked 'Detect my location'.">>, <<>>)
        ELSE IF r.pin
        THEN EnterPin(r)
        ELSE Return(<<"No location popup detected.">>, <<>>),
        <<"Error handling location popup: ">>)

handle_location_popup(sess, r) ==
  Catch(IF sess # "live"
        THEN Raise(HeliumDown(sess), <<>>)
        ELSE IF r.detect
        THEN Click(r, "Detect my location",
                   <<"Clicked 'Detect my location'.">>, <<>>)
        ELSE IF r.allow
        THEN Click(r, "Allow", <<"Clicked 'Allow' on location popup.">>, <<>>)
        ELSE IF r.pin
        THEN EnterPin(r)
        ELSE Return(<<"No location popup detected.">>, <<>>),
        <<"Error handling location popup: ">>)

search_product(sess, r) ==
  Catch(IF sess # "live"
        THEN Raise(HeliumDown(sess), <<>>)
        ELSE IF ~r.entry
        THEN Raise("LookupError", <<>>)
        ELSE IF ~r.click_ok
        THEN Raise("WebDriverException",
                   <<<<"click", "Search for products", 0>>>>)
        ELSE IF ~r.landmark
        THEN Raise("TimeoutException",
                   <<<<"click", "Search for products", 0>>,
                     <<"write", r.term, 0>>, <<"press", "ENTER", 0>>>>)
        ELSE Return(<<"Successfully searched for '", r.term, "'.">>,
                    <<<<"click", "Search for products", 0>>,
                      <<"write", r.term, 0>>, <<"press", "ENTER", 0>>>>),
        <<"Error searching for '", r.term, "': ">>)

select_first_product(sess, r) ==
  Catch(IF sess # "live"
        THEN Raise(HeliumDown(sess), <<>>)
        ELSE IF ~r.landmark
        THEN Raise("TimeoutException", <<>>)
        ELSE Click(r, ".cursor-pointer",
                   <<"Successfully selected the first product.">>, <<>>),
        <<"Error selecting the first product: ">>)

add_to_cart(sess, r) ==
  Catch(IF sess # "live"
        THEN Raise(HeliumDown(sess), <<>>)
        ELSE IF ~r.landmark
        THEN Raise("TimeoutException", <<>>)
        ELSE Click(r, "Add to Cart",
                   <<"Successfully added the product to the cart.">>, <<>>),
        <<"Error adding product to the cart: ">>)

modal_selectors ==
  <<"button[class*='close']", "[class*='modal']", ".modal-close",
    ".close-modal">>

\* for element in elements: if element.is_displayed(): execute_script(click)
RECURSIVE ClickDisplayed(_, _, _)
ClickDisplayed(selector, elements, k) ==
  IF k > Len(elements)
  THEN <<>>
  ELSE (IF elements[k] THEN <<<<"script_click", selector, k>>>> ELSE <<>>)
       \o ClickDisplayed(selector, elements, k + 1)

\* for selector in modal_selectors: wait.until(presence_of_all_elements_located)
\* WebDriverWait.until returns the condition's value once it is truthy; an
\* empty list of elements is not, so the wait times out
RECURSIVE close_loop(_, _, _)
close_loop(r, i, acts) ==
  IF i > Len(modal_selectors)
  THEN Return(<<"Popups closed.">>, acts)
  ELSE IF r.matches[i] = <<>>
  THEN Raise("TimeoutException", acts)
  ELSE close_loop(r, i + 1,
                  acts \o ClickDisplayed(modal_selectors[i], r.matches[i], 1))

close_popups(sess, r) ==
  Catch(IF sess # "live"
        THEN Raise("WebDriverException", <<>>)
        ELSE close_loop(r, 1, <<>>),
        <<"Error closing popups: ">>)

\* ', '.join(alt.strip() for each img whose alt text is non-empty)
RECURSIVE JoinAlts(_, _, _)
JoinAlts(alts, k, any) ==
  IF k > Len(alts)
  THEN <<>>
  ELSE IF alts[k] = ""
  THEN JoinAlts(alts, k + 1, any)
  ELSE (IF any THEN <<", ", alts[k]>> ELSE <<alts[k]>>)
       \o JoinAlts(alts, k + 1, TRUE)

scrape_categories(sess, r) ==
  Catch(IF sess # "live"
        THEN Raise("WebDriverException", <<>>)
        ELSE IF ~r.landmark
        THEN Raise("TimeoutException", <<>>)
        ELSE IF r.alts = <<>>
        THEN Return(<<"No category images found. Possibly incorrect selector.">>,
                    <<>>)
        ELSE IF JoinAlts(r.alts, 1, FALSE) # <<>>
        THEN Return(<<"Categories found: ">> \o JoinAlts(r.alts, 1, FALSE), <<>>)
        ELSE Return(<<"No alt text found in category images.">>, <<>>),
        <<"Error scraping categories: ">>)

\* the tool decorated @tool under each name
Invoke(tool, sess, r) ==
  CASE tool = "navigate_to_zepto" -> navigate_to_zepto(sess, r)
    [] tool = "handle_location_popup" -> handle_location_popup(sess, r)
    [] tool = "search_product" -> search_product(sess, r)
    [] tool = "select_first_product" -> select_first_product(sess, r)
    [] tool = "add_to_cart" -> add_to_cart(sess, r)
    [] tool = "close_popups" -> close_popups(sess, r)
    [] OTHER -> scrape_categories(sess, r)

\* the tools list each agent is built with
tools(f) ==
  IF f = "agent"
  THEN <<"navigate_to_zepto", "handle_location_popup", "search_product",
         "select_first_product", "add_to_cart", "close_popups">>
  ELSE <<"navigate_to_zepto", "scrape_categories">>

\* a tool's string result reports failure when it is an "Error ..." message
ErrorHeads ==
  {"Error navigating to Zepto: ", "Error handling location popup: ",
   "Error searching for '", "Error selecting the first product: ",
   "Error adding product to the cart: ", "Error closing popups: ",
   "Error scraping categories: "}

IsFailure(msg) == Len(msg) > 0 /\ msg[1] \in ErrorHeads

IsSuccess(msg) == Len(msg) > 0 /\ msg[1] \notin ErrorHeads

\* the responses a page can give to each tool (fields the tool never reads
\* stay at their defaults)
Responses(tool) ==
  CASE tool = "navigate_to_zepto" ->
         {[NoResponse EXCEPT !.landmark = l] : l \in BOOLEAN}
    [] tool = "handle_location_popup" ->
         {[NoResponse EXCEPT !.detect = b[1], !.allow = b[2], !.pin = b[3],
                             !.confirm = b[4], !.click_ok = b[5]] :
            b \in [1..5 -> BOOLEAN]}
    [] tool = "search_product" ->
         {[NoResponse EXCEPT !.entry = b[1], !.click_ok = b[2],
                             !.landmark = b[3], !.term = t] :
            b \in [1..3 -> BOOLEAN], t \in Products}
    [] tool \in {"select_first_product", "add_to_cart"} ->
         {[NoResponse EXCEPT !.landmark = b[1], !.click_ok = b[2]] :
            b \in [1..2 -> BOOLEAN]}
    [] tool = "close_popups" ->
         {[NoResponse EXCEPT !.matches = m] :
            m \in [1..Len(modal_selectors) -> Bools(MaxElems)]}
    [] OTHER ->
         {[NoResponse EXCEPT !.landmark = l, !.alts = a] :
            l \in BOOLEAN, a \in UNION {[1..k -> AltTexts] : k \in 0..MaxElems}}

(***************************************************************************)
(* The step callback.  A step log (ActionStep) holds the step's calls and  *)
(* their outcomes, its textual observations (None or a string) and its     *)
(* images (None or a list).                                                *)
(***************************************************************************)
NewLog(n) ==
  [step_number |-> n, calls |-> <<>>, outcomes |-> <<>>,
   observations |-> <<>>, observations_images |-> <<>>]

\* Python truthiness of Optional[str]: None and "" are both falsy
Truthy(o) == o # <<>> /\ o[1] # <<>>

URLs == {"https://www.zeptonow.com/", "about:blank"}

Done(log, agent_steps) ==
  [kind |-> "return", exc |-> "none", log |-> log, steps |-> agent_steps]

Failed(e, log, agent_steps) ==
  [kind |-> "raise", exc |-> e, log |-> log, steps |-> agent_steps]

AttachUrl_overwrite(log, url) ==
  [log EXCEPT !.observations = <<<<"Current URL: ", url>>>>]

\* url_info = f"Current URL: {driver.current_url}", attached to observations
AttachUrl(log, url) ==
  [log EXCEPT !.observations =
     IF Truthy(@)
     THEN <<@[1] \o <<"\n">> \o <<"Current URL: ", url>>>>
     ELSE <<<<"Current URL: ", url>>>>]

save_screenshot_prune(step_log, agent_steps, sess, url) ==
  IF sess = "crashed"
  THEN Failed("WebDriverException", step_log, agent_steps)
  ELSE IF sess = "none"
  THEN Failed("AttributeError", step_log, agent_steps)
  ELSE Done(AttachUrl([step_log EXCEPT !.observations_images = <<"png">>], url),
            [i \in 1..Len(agent_steps) |->
               IF agent_steps[i].step_number <= step_log.step_number - 2
               THEN [agent_steps[i] EXCEPT !.observations_images = <<>>]
               ELSE agent_steps[i]])

\* driver = helium.get_driver(): None once the browser is gone from helium,
\* a dead handle when the browser crashed
save_screenshot(step_log, agent_steps, sess, url) ==
  IF sess = "crashed"
  THEN Failed("WebDriverException", step_log, agent_steps)
  ELSE IF sess = "none"
  THEN Failed("AttributeError", step_log, agent_steps)
  ELSE Done(AttachUrl([step_log EXCEPT !.observations_images = <<"png">>], url),
            agent_steps)

step_callbacks_none == <<>>

step_callbacks == <<"save_screenshot">>

\* for callback in step_callbacks: callback(step_log, agent)
RECURSIVE RunCallbacks(_, _, _, _, _)
RunCallbacks(k, log, agent_steps, sess, url) ==
  IF k > Len(step_callbacks)
  THEN Done(log, agent_steps)
  ELSE LET res == save_screenshot(log, agent_steps, sess, url)
       IN IF res.kind = "raise"
          THEN res
          ELSE RunCallbacks(k + 1, res.log, res.steps, sess, url)

max_steps_copied(f) == 20

max_steps(f) == IF f = "agent" THEN 20 ELSE 10

Sessions == {"live", "crashed", "none"}

(***************************************************************************)
(* SpecUnit: one invocation of a tool or of the callback, on every session *)
(* state and every response of the page.                                   *)
(***************************************************************************)
AllTools ==
  {"navigate_to_zepto", "handle_location_popup", "search_product",
   "select_first_product", "add_to_cart", "close_popups", "scrape_categories"}

NoCall ==
  [op |-> "none", done |-> FALSE, sess |-> "live", r |-> NoResponse,
   res |-> Return(<<>>, <<>>), log_in |-> NewLog(0), exc |-> "none",
   log_out |-> NewLog(0), url |-> "about:blank"]

ObsTokens == {"Execution logs:", "Popups closed."}

\* the observations a step log can hold when the callback runs
ObsTexts ==
  {<<>>} \cup {<<t>> : t \in UNION {[1..k -> ObsTokens] : k \in 0..MaxText}}

\* the invocations: a tool on a session state and a page response, or the
\* callback on a session state, a step log and a current URL
UnitInputs ==
  UNION {{[NoCall EXCEPT !.op = tool, !.sess = sess, !.r = r] :
            sess \in Sessions, r \in Responses(tool)} : tool \in AllTools}
  \cup
  {[NoCall EXCEPT !.op = "save_screenshot", !.sess = sess, !.url = url,
                  !.log_in = [NewLog(1) EXCEPT !.observations = o]] :
     sess \in Sessions, o \in ObsTexts, url \in URLs}

LoopIdle ==
  /\ flow = "agent"
  /\ page = "healthy"
  /\ steps = <<>>
  /\ step_number = 1
  /\ cur = NewLog(0)
  /\ code = <<>>
  /\ final = FALSE
  /\ decisions = 0
  /\ captures = 0
  /\ fatal = "none"

InitUnit ==
  /\ LoopIdle
  /\ pc = "Unit"
  /\ last \in UnitInputs
  /\ session = last.sess

UnitCall(tool) ==
  /\ pc = "Unit"
  /\ last.op = tool
  /\ ~last.done
  /\ last' = [last EXCEPT !.done = TRUE,
                          !.res = Invoke(tool, session, last.r)]
  /\ UNCHANGED <<flow, page, session, pc, steps, step_number, cur, code,
                 final, decisions, captures, fatal>>

UnitCapture ==
  /\ pc = "Unit"
  /\ last.op = "save_screenshot"
  /\ ~last.done
  /\ LET res == RunCallbacks(1, last.log_in, <<>>, session, last.url)
     IN last' = [last EXCEPT !.done = TRUE, !.exc = res.exc,
                             !.log_out = res.log]
  /\ UNCHANGED <<flow, page, session, pc, steps, step_number, cur, code,
                 final, decisions, captures, fatal>>

NextUnit == (\E tool \in AllTools : UnitCall(tool)) \/ UnitCapture

SpecUnit == InitUnit /\ [][NextUnit]_vars

(***************************************************************************)
(* Claims about one invocation of a tool or of the callback (SpecUnit).    *)
(***************************************************************************)
ShoppingTools ==
  {"navigate_to_zepto", "handle_location_popup", "search_product",
   "select_first_product", "add_to_cart", "close_popups"}

\* the tools that wait for a landmark and report its absence as an error
LandmarkTools ==
  {"navigate_to_zepto", "search_product", "select_first_product", "add_to_cart"}

NoPrompt(r) == ~r.detect /\ ~r.allow /\ ~r.pin

\* the element the invocation waits for never appears within its timeout
NeverAppears(c) ==
  CASE c.op = "navigate_to_zepto" -> ~c.r.landmark
    [] c.op = "handle_location_popup" -> NoPrompt(c.r)
    [] c.op = "search_product" -> ~c.r.entry \/ ~c.r.landmark
    [] c.op \in {"select_first_product", "add_to_cart"} -> ~c.r.landmark
    [] c.op = "close_popups" -> \A i \in 1..Len(modal_selectors) : c.r.matches[i] = <<>>
    [] OTHER -> FALSE

\* C1 as stated: every one of the six primitives, for every session
\* behaviour in which its landmark never appears, ends in a failure outcome
\* with a non-empty message and lets no error escape.
C1_Original ==
  (last.done /\ last.op \in ShoppingTools /\ NeverAppears(last)) =>
    (last.res.kind = "return" /\ IsFailure(last.res.msg))

\* C1 (amended): navigate, search, selectFirstResult and addToCart end in a
\* failure outcome with a non-empty message when their landmark never
\* appears; dismissLocationPrompt on a live session with none of its controls
\* present ends in the success outcome "No location popup detected."; all six
\* primitives, on every session state and page, end with one returned outcome
\* whose message is non-empty, and no error escapes.
C1_LandmarkFailure ==
  /\ (last.done /\ last.op \in ShoppingTools) =>
       (last.res.kind = "return" /\ Len(last.res.msg) > 0)
  /\ (last.done /\ last.op \in LandmarkTools /\ NeverAppears(last)) =>
       IsFailure(last.res.msg)
  /\ (last.done /\ last.op = "handle_location_popup" /\ NoPrompt(last.r)) =>
       IF last.sess = "live"
       THEN last.res.msg = <<"No location popup detected.">>
       ELSE IsFailure(last.res.msg)

C1_Witness ==
  /\ last.done
  /\ last.op = "navigate_to_zepto"
  /\ last.sess = "live"
  /\ ~last.r.landmark
  /\ last.res.msg = <<"Error navigating to Zepto: ", "Message: ">>

\* C2: closeOverlays on a page where no overlay selector matches any element
\* returns success with an empty list of closed overlays.
C2_NoOverlaysIsSuccess ==
  (/\ last.done
   /\ last.op = "close_popups"
   /\ last.sess = "live"
   /\ \A i \in 1..Len(modal_selectors) : last.r.matches[i] = <<>>) =>
    (last.res.kind = "return" /\ IsSuccess(last.res.msg) /\ last.res.acts = <<>>)

\* C3: Observation Capture completes on every session state; without a live
\* connection the screenshot is absent, the capture raises nothing and the
\* observation carries the current-URL text.
C3_CaptureAlwaysCompletes ==
  (last.done /\ last.op = "save_screenshot") =>
    /\ last.exc = "none"
    /\ Truthy(last.log_out.observations)
    /\ last.sess # "live" => last.log_out.observations_images = <<>>

TextOf(o) == IF o = <<>> THEN <<>> ELSE o[1]

IsPrefix(a, b) == Len(a) <= Len(b) /\ SubSeq(b, 1, Len(a)) = a

\* C7: the callback never overwrites the step's textual observation: with
\* existing (non-empty) text T the text becomes T, a newline, the current-URL
\* line; with none it becomes the current-URL line; the prior text is a
\* prefix of the result in either case (and when the callback raises, the
\* text is left as it was).
C7_UrlAppended ==
  (last.done /\ last.op = "save_screenshot") =>
    /\ IsPrefix(TextOf(last.log_in.observations),
                TextOf(last.log_out.observations))
    /\ last.exc = "none" =>
         TextOf(last.log_out.observations) =
           IF Truthy(last.log_in.observations)
           THEN TextOf(last.log_in.observations)
                  \o <<"\n", "Current URL: ", last.url>>
           ELSE <<"Current URL: ", last.url>>
    /\ last.exc # "none" => last.log_out.observations = last.log_in.observations

C7_Witness ==
  /\ last.done
  /\ last.op = "save_screenshot"
  /\ last.exc = "none"
  /\ Len(TextOf(last.log_in.observations)) = MaxText
  /\ Len(TextOf(last.log_out.observations)) = MaxText + 3

\* C8: dismissLocationPrompt on a loaded page tries detect-location, allow,
\* PIN in that order and acts only on the first whose control exists, even
\* when several exist; with none it dispatches nothing and returns
\* "No location popup detected."
C8_BranchOrder ==
  (last.done /\ last.op = "handle_location_popup" /\ last.sess = "live") =>
    /\ last.r.detect =>
         last.res.acts = <<<<"click", "Detect my location", 0>>>>
    /\ (~last.r.detect /\ last.r.allow) =>
         last.res.acts = <<<<"click", "Allow", 0>>>>
    /\ (~last.r.detect /\ ~last.r.allow /\ last.r.pin) =>
         /\ last.res.acts # <<>>
         /\ \A k \in 1..Len(last.res.acts) :
              last.res.acts[k] \in
                {<<"write", "400001", 0>>, <<"click", "Confirm", 0>>}
    /\ NoPrompt(last.r) =>
         /\ last.res.acts = <<>>
         /\ last.res.msg = <<"No location popup detected.">>

C8_Witness ==
  /\ last.done
  /\ last.op = "handle_location_popup"
  /\ last.sess = "live"
  /\ last.r.detect /\ last.r.allow /\ last.r.pin /\ last.r.click_ok
  /\ last.res.msg = <<"Clicked 'Detect my location'.">>

\* every displayed element of every selector, in the list's order
RECURSIVE AllDisplayed(_, _)
AllDisplayed(r, i) ==
  IF i > Len(modal_selectors)
  THEN <<>>
  ELSE ClickDisplayed(modal_selectors[i], r.matches[i], 1)
       \o AllDisplayed(r, i + 1)

\* C9: closeOverlays processes every selector of its list: each displayed
\* match of each selector is force-clicked, whether or not earlier selectors
\* matched anything.
C9_EverySelectorProcessed ==
  (last.done /\ last.op = "close_popups" /\ last.sess = "live") =>
    last.res.acts = AllDisplayed(last.r, 1)

(***************************************************************************)
(* Spec: the step loop of an agent built as CodeAgent(tools=...,           *)
(* step_callbacks=[save_screenshot], max_steps=...).  In each step the     *)
(* planner emits code; the code calls tools one after the other; the step  *)
(* callbacks run on the step's log; the log joins the history.             *)
(***************************************************************************)
Pages == {"healthy", "blank"}

\* the product named in the instructions
product_name == "bread"

\* a healthy page shows every element a tool looks for, a blank page none
PageResponse(p, tool) ==
  IF p = "healthy"
  THEN [landmark |-> TRUE, entry |-> TRUE, detect |-> TRUE, allow |-> TRUE,
        pin |-> TRUE, confirm |-> TRUE, click_ok |-> TRUE,
        matches |-> [i \in 1..Len(modal_selectors) |-> <<TRUE>>],
        alts |-> <<"Fruits">>, term |-> product_name]
  ELSE [NoResponse EXCEPT !.term = product_name]

CurrentUrl(p) ==
  IF p = "healthy" THEN "https://www.zeptonow.com/" ELSE "about:blank"

\* the code of one step: up to MaxCalls tool calls, consecutive tools of the
\* agent's list
CodeBlobs(f) ==
  {SubSeq(tools(f), w[1], w[1] + w[2] - 1) :
     w \in {v \in (1..Len(tools(f))) \X (0..MaxCalls) :
              v[1] + v[2] - 1 <= Len(tools(f))}}

\* what the planner may emit: anything in the first MaxFree steps; after
\* them it retries the first tool and never gives a final answer
Decisions ==
  IF Len(steps) < MaxFree
  THEN {[code |-> c, final |-> b, page |-> p] :
          c \in CodeBlobs(flow),
          b \in BOOLEAN, p \in Pages}
  ELSE {[code |-> <<tools(flow)[1]>>, final |-> FALSE, page |-> page]}

\* the execution log of the step: one line per tool result
AddLine(o, msg) == IF o = <<>> THEN <<msg>> ELSE <<o[1] \o <<"\n">> \o msg>>

Init ==
  /\ flow \in {"agent", "zepto"}
  /\ page = "healthy"
  /\ session = "live"
  /\ pc = "AwaitingDecision"
  /\ steps = <<>>
  /\ step_number = 1
  /\ cur = NewLog(0)
  /\ code = <<>>
  /\ final = FALSE
  /\ decisions = 0
  /\ captures = 0
  /\ fatal = "none"
  /\ last = NoCall

Decide ==
  /\ pc = "AwaitingDecision"
  /\ step_number <= max_steps(flow)
  /\ \E d \in Decisions :
       /\ code' = d.code
       /\ final' = d.final
       /\ page' = d.page
  /\ cur' = NewLog(step_number)
  /\ decisions' = decisions + 1
  /\ pc' = "Executing"
  /\ UNCHANGED <<flow, session, steps, step_number, captures, fatal, last>>

Execute ==
  /\ pc = "Executing"
  /\ code # <<>>
  /\ LET tool == Head(code)
         res == Invoke(tool, session, PageResponse(page, tool))
     IN IF res.kind = "raise"
        THEN /\ pc' = "Fatal"
             /\ fatal' = "primitive"
             /\ UNCHANGED <<cur, code>>
        ELSE /\ cur' = [cur EXCEPT !.calls = Append(@, <<tool, session>>),
                                   !.outcomes = Append(@, res.msg),
                                   !.observations = AddLine(@, res.msg)]
             /\ code' = Tail(code)
             /\ UNCHANGED <<pc, fatal>>
  /\ UNCHANGED <<flow, page, session, steps, step_number, final, decisions,
                 captures, last>>

FinishCode ==
  /\ pc = "Executing"
  /\ code = <<>>
  /\ pc' = "Observed"
  /\ UNCHANGED <<flow, page, session, steps, step_number, cur, code, final,
                 decisions, captures, fatal, last>>

\* a callback that raises ends run() with that error; the step is then not
\* counted as completed
Observe ==
  /\ pc = "Observed"
  /\ LET res == RunCallbacks(1, cur, steps, session, CurrentUrl(page))
     IN IF res.kind = "raise"
        THEN /\ pc' = "Fatal"
             /\ fatal' = "callback"
             /\ UNCHANGED <<steps, step_number>>
        ELSE /\ steps' = Append(res.steps, res.log)
             /\ step_number' = step_number + 1
             /\ pc' = IF final THEN "Done"
                      ELSE IF step_number + 1 > max_steps(flow) THEN "Aborted"
                      ELSE "AwaitingDecision"
             /\ UNCHANGED fatal
  /\ captures' = captures + Len(step_callbacks)
  /\ UNCHANGED <<flow, page, session, cur, code, final, decisions, last>>

\* the browser crashes, or is closed from under helium
SessionLost ==
  /\ pc \in {"AwaitingDecision", "Executing", "Observed"}
  /\ session = "live"
  /\ session' \in {"crashed", "none"}
  /\ UNCHANGED <<flow, page, pc, steps, step_number, cur, code, final,
                 decisions, captures, fatal, last>>

Next == Decide \/ Execute \/ FinishCode \/ Observe \/ SessionLost

Spec == Init /\ [][Next]_vars

(***************************************************************************)
(* Claims about a run of the loop (Spec).                                  *)
(***************************************************************************)
Terminal == pc \in {"Done", "Aborted", "Fatal"}

DeadCalls(log) == {k \in 1..Len(log.calls) : log.calls[k][2] # "live"}

\* C5 as stated: a primitive that runs on an unusable session raises out of
\* the primitive and ends the run; no outcome message is recorded for it.
C5_Original == DeadCalls(cur) = {}

\* C5 (amended): a primitive that runs on an unusable session catches the
\* driver's error at its own boundary and returns it as a failure message
\* ("Error ...: <text>") recorded in the step; no primitive ends the run
\* with an error of its own.
C5_DriverErrorBecomesOutcome ==
  /\ fatal # "primitive"
  /\ \A k \in DeadCalls(cur) : IsFailure(cur.outcomes[k])
  /\ \A i \in 1..Len(steps) :
       \A k \in DeadCalls(steps[i]) : IsFailure(steps[i].outcomes[k])

C5_Witness ==
  /\ pc = "Observed"
  /\ cur.calls = <<<<"navigate_to_zepto", "crashed">>>>
  /\ cur.outcomes =
       <<<<"Error navigating to Zepto: ", "Message: session not reachable">>>>

\* C6: the history is append-only: it holds exactly one step per completed
\* step, and a step of the loop (the callback included) leaves every
\* recorded step as it was, adding at most one at the end.
C6_AppendOnly ==
  /\ [](Len(steps) = step_number - 1)
  /\ [][/\ Len(steps') \in {Len(steps), Len(steps) + 1}
        /\ \A i \in 1..Len(steps) : steps'[i] = steps[i]]_vars

C6_Witness ==
  /\ Len(steps) = 3
  /\ step_number = 4
  /\ steps[1].observations_images = <<"png">>
  /\ steps[1].step_number = 1 /\ steps[3].step_number = 3

====
